---- MODULE Spec2Model ----
(***************************************************************************)
(* Visitor check-in / check-out management application.                    *)
(*                                                                         *)
(* The module models the VisitorService data-access layer over the         *)
(* document database (collections "visitors" and "audit_logs"), the        *)
(* date-range FrontDeskDashboard built on it, and the role-keyed router of *)
(* AppContent.                                                             *)
(*                                                                         *)
(* Time is a tick counter.  A day is DayLen consecutive ticks, so that     *)
(* startOfDay / endOfDay are real conversions.  Document ids are small     *)
(* integers handed out in arbitrary order (Firestore auto-ids carry no     *)
(* creation order).                                                        *)
(***************************************************************************)
EXTENDS Integers, Sequences, FiniteSets, TLC

\* ------------------------------------------------------------------ bounds
MaxVisitors == 2   \* document ids of the visitors collection
MaxClock == 2      \* last tick the clock reaches while operations run
MaxDays == 2       \* days spanned by the stored records that reads are applied to
MaxAudit == 2      \* audit documents written before the operations stop being called
MaxIdNumber == 2   \* distinct visitorIdNumber values
DayLen == 2        \* ticks per calendar day

Ids == 1..MaxVisitors
IdNumbers == 1..MaxIdNumber
ReadHorizon == MaxDays * DayLen - 1
NoTime == -1

VARIABLES
  visitors,   \* collection "visitors": document id -> document data
  audit,      \* collection "audit_logs": the documents, in insertion order
  now,        \* wall clock (Date.now())
  last        \* the service call that has just settled, until its caller takes the result

\* FrontDeskDashboard (date-range version): component state.
VARIABLES
  dashLoad,        \* loadAllVisitors: "idle" (not mounted), "pending", "done", "failed"
  loading,         \* the spinner is shown until the first snapshot arrives
  listening,       \* the onSnapshot listener is attached and alive
  activeVisitors,
  allVisitors,
  startDate,
  endDate,
  searchTerm,
  selectedIds,
  alertMsg         \* the alert dialog shown last

\* AppContent: component state, the router's location, the session kept by
\* authService, and the asynchronous work in flight.
VARIABLES
  currentUser,      \* the role of the logged-in user, or NoUser
  pathname,         \* location.pathname
  session,          \* authService: the user getCurrentUser() resolves to
  checkInMode,
  emergencyMode,
  returningVisitor,
  logoutPending,    \* handleLogout is awaiting authService.logout()
  authInits,        \* the initializeAuth calls in flight
  visited,          \* the guarded pages among the entries of the session history
  nav               \* the last navigation: the path asked for and where it landed

\* GoogleDriveService, the browser's local storage, and BackupSettings.
VARIABLES
  accessToken,      \* GoogleDriveService.accessToken (0: null)
  tokenExpiration,  \* GoogleDriveService.tokenExpiration
  storedToken,      \* localStorage 'gdrive_access_token' (0: absent)
  storedExpiry,     \* localStorage 'gdrive_token_expiry' (0: absent)
  storedClientId,   \* localStorage 'gdrive_client_id' is set
  isAuthorized,     \* BackupSettings: 'Google Drive Connected' is shown
  isBackingUp,
  lastBackup,       \* BackupSettings.lastBackup and localStorage 'last_backup_date'
  backupError,      \* BackupSettings.error
  lastStart,        \* when createBackup was last called
  connectedSince,   \* since when 'Google Drive Connected' has been shown
  scriptLoaded,     \* window.google.accounts is there
  signInCall,       \* the initAndSignIn call in flight or settled last
  dashBackup,       \* where the dashboard's 'Backup to Drive' handler stands
  upload            \* the uploadData call settled last

svcVars == <<visitors, audit, now, last>>
driveVars == <<accessToken, tokenExpiration, storedToken, storedExpiry, storedClientId,
               isAuthorized, isBackingUp, lastBackup, backupError, lastStart,
               connectedSince, scriptLoaded, signInCall, dashBackup, upload>>
appVars == <<currentUser, pathname, session, checkInMode, emergencyMode,
             returningVisitor, logoutPending, authInits, visited, nav>>
dashVars == <<dashLoad, loading, listening, activeVisitors, allVisitors,
              startDate, endDate, searchTerm, selectedIds, alertMsg>>
vars == <<svcVars, dashVars, appVars, driveVars>>

\* ------------------------------------------------------------ backend API
\* What a backend call can answer: success, the index-missing error, or any
\* other error (network, permission, quota ...).
Outcomes == {"ok", "failed-precondition", "unavailable"}

\* The fallback queries filter on one field or on none and need no composite
\* index: they are answered, or fail for another reason.
FallbackOutcomes == {"ok", "unavailable"}

Status == {"checked-in", "checked-out", "emergency-evacuated"}

\* date-fns startOfDay / endOfDay on tick time.
startOfDay(t) == (t \div DayLen) * DayLen
endOfDay(t) == startOfDay(t) + DayLen - 1

\* getDocs without orderBy: documents in ascending document-id order.
RECURSIVE OrderAsc(_)
OrderAsc(S) ==
  IF S = {} THEN <<>>
  ELSE LET m == CHOOSE x \in S : \A y \in S : x <= y
       IN <<m>> \o OrderAsc(S \ {m})

\* orderBy('checkInTime', 'desc'): descending checkInTime, ties broken by
\* document id in the same (descending) direction.
RECURSIVE OrderByCheckInTimeDesc(_)
OrderByCheckInTimeDesc(S) ==
  IF S = {} THEN <<>>
  ELSE LET m == CHOOSE x \in S : \A y \in S :
                  \/ visitors[x].checkInTime > visitors[y].checkInTime
                  \/ /\ visitors[x].checkInTime = visitors[y].checkInTime
                     /\ x >= y
       IN <<m>> \o OrderByCheckInTimeDesc(S \ {m})

\* Firestore doc -> Visitor object.
mapDocToVisitor(id) ==
  [id |-> id,
   visitorIdNumber |-> visitors[id].visitorIdNumber,
   checkInTime |-> visitors[id].checkInTime,
   checkOutTime |-> visitors[id].checkOutTime,
   status |-> visitors[id].status]

\* snapshot.docs.map(doc => this.mapDocToVisitor(doc))
MapDocs(ids) == [i \in 1..Len(ids) |-> mapDocToVisitor(ids[i])]

\* (a, b) => (b.checkInTime?.getTime() || 0) - (a.checkInTime?.getTime() || 0)
SortKey(v) == IF v.checkInTime = NoTime THEN 0 ELSE v.checkInTime

\* Array.prototype.sort with the comparator above: stable, newest first.
Insert(v, s) ==
  LET n == Cardinality({i \in 1..Len(s) : SortKey(s[i]) >= SortKey(v)})
  IN SubSeq(s, 1, n) \o <<v>> \o SubSeq(s, n + 1, Len(s))

RECURSIVE SortNewestFirst(_)
SortNewestFirst(s) ==
  IF s = <<>> THEN <<>>
  ELSE Insert(s[Len(s)], SortNewestFirst(SubSeq(s, 1, Len(s) - 1)))

\* The documents the query where('status', '==', 'checked-in') matches.
ActiveIds == {id \in DOMAIN visitors : visitors[id].status = "checked-in"}

\* What a call reports: its name and arguments, whether its promise resolved
\* or rejected, the value it resolved with, the backend queries it issued with
\* their answers, the documents the backend wrote for it, and what those
\* documents held before.
NoArgs == [ids |-> {}, from |-> NoTime, to |-> NoTime, key |-> 0]

Result(op, args, outcome, value, queries, written) ==
  [op |-> op, args |-> args, outcome |-> outcome, value |-> value,
   queries |-> queries, written |-> written,
   before |-> [i \in written \cap DOMAIN visitors |-> visitors[i]]]

NoCall == Result("none", NoArgs, "none", <<>>, <<>>, {})

Query(q, r) == [q |-> q, r |-> r]

\* -------------------------------------------------------------- audit log
\* logAudit: one addDoc on audit_logs; a failure is logged and swallowed.
logAudit(action, visitorId, a) ==
  IF a = "ok"
    THEN Append(audit, [action |-> action, visitorId |-> visitorId, timestamp |-> now])
    ELSE audit

\* ------------------------------------------------------------------ writes
\* The error a write that is not applied fails with: the backend's, or that
\* of the document missing (updateDoc) or being refused (addDoc).
addDocError(w) == IF w # "ok" THEN w ELSE "already-exists"
updateDocError(w) == IF w # "ok" THEN w ELSE "not-found"

\* What a rejected promise carries: the error that was thrown on.
Thrown(code) == <<[code |-> code]>>

\* The effect of a call: the two collections after it and what it reports.
Effect(v, a, r) == [visitors |-> v, audit |-> a, result |-> r]

\* Variant: an id number already held by a record is refused.
checkInVisitor_Unique(id, idNumber, w, a) ==
  LET payload == [visitorIdNumber |-> idNumber, checkInTime |-> now,
                  checkOutTime |-> NoTime, status |-> "checked-in"]
  IN IF w = "ok" /\ \A i \in DOMAIN visitors : visitors[i].visitorIdNumber # idNumber
       THEN Effect([i \in DOMAIN visitors \cup {id} |->
                      IF i = id THEN payload ELSE visitors[i]],
                   logAudit("visitor_check_in", id, a),
                   Result("checkInVisitor", [NoArgs EXCEPT !.key = idNumber], "resolved",
                          <<[id |-> id, visitorIdNumber |-> idNumber, checkInTime |-> now,
                             checkOutTime |-> NoTime, status |-> "checked-in"]>>,
                          <<Query("audit-write", a)>>, {id}))
       ELSE Effect(visitors, audit,
                   Result("checkInVisitor", [NoArgs EXCEPT !.key = idNumber], "rejected",
                          Thrown(addDocError(w)), <<Query("visitor-write", addDocError(w))>>, {}))

\* checkInVisitor: addDoc of a new 'checked-in' record (the backend picks the
\* document id), then the audit record; rejects when addDoc fails.  The id
\* number is the one handed in for a returning visitor or a generated one;
\* either may be held by a stored record already.
checkInVisitor(id, idNumber, w, a) ==
  LET payload == [visitorIdNumber |-> idNumber, checkInTime |-> now,
                  checkOutTime |-> NoTime, status |-> "checked-in"]
  IN IF w = "ok"
       THEN Effect([i \in DOMAIN visitors \cup {id} |->
                      IF i = id THEN payload ELSE visitors[i]],
                   logAudit("visitor_check_in", id, a),
                   Result("checkInVisitor", [NoArgs EXCEPT !.key = idNumber], "resolved",
                          <<[id |-> id, visitorIdNumber |-> idNumber, checkInTime |-> now,
                             checkOutTime |-> NoTime, status |-> "checked-in"]>>,
                          <<Query("audit-write", a)>>, {id}))
       ELSE Effect(visitors, audit,
                   Result("checkInVisitor", [NoArgs EXCEPT !.key = idNumber], "rejected",
                          Thrown(addDocError(w)), <<Query("visitor-write", addDocError(w))>>, {}))

\* updateDoc(doc(db, 'visitors', id), {status, checkOutTime: now}): fails on a
\* missing document and on a backend error, and otherwise overwrites the two
\* fields whatever they held.
UpdateApplies(id, w) == w = "ok" /\ id \in DOMAIN visitors

updateDoc(S, status) ==
  [i \in DOMAIN visitors |->
     IF i \in S THEN [visitors[i] EXCEPT !.status = status, !.checkOutTime = now]
     ELSE visitors[i]]

\* Variant: the update carries checkOutTime only.
checkOutVisitor_TimeOnly(id, w, a) ==
  IF UpdateApplies(id, w)
    THEN Effect([visitors EXCEPT ![id].checkOutTime = now],
                logAudit("visitor_check_out", id, a),
                Result("checkOutVisitor", [NoArgs EXCEPT !.ids = {id}], "resolved",
                       <<>>, <<Query("audit-write", a)>>, {id}))
    ELSE Effect(visitors, audit,
                Result("checkOutVisitor", [NoArgs EXCEPT !.ids = {id}], "rejected",
                       Thrown(updateDocError(w)), <<Query("visitor-write", updateDocError(w))>>, {}))

\* Variant: only a record that is still 'checked-in' can be checked out.
checkOutVisitor_Guarded(id, w, a) ==
  IF UpdateApplies(id, w) /\ visitors[id].status = "checked-in"
    THEN Effect(updateDoc({id}, "checked-out"),
                logAudit("visitor_check_out", id, a),
                Result("checkOutVisitor", [NoArgs EXCEPT !.ids = {id}], "resolved",
                       <<>>, <<Query("audit-write", a)>>, {id}))
    ELSE Effect(visitors, audit,
                Result("checkOutVisitor", [NoArgs EXCEPT !.ids = {id}], "rejected",
                       Thrown(updateDocError(w)), <<Query("visitor-write", updateDocError(w))>>, {}))

\* Variant: a failed audit write fails the check-out.
checkOutVisitor_AuditFatal(id, w, a) ==
  IF UpdateApplies(id, w)
    THEN Effect(updateDoc({id}, "checked-out"),
                logAudit("visitor_check_out", id, a),
                Result("checkOutVisitor", [NoArgs EXCEPT !.ids = {id}],
                       IF a = "ok" THEN "resolved" ELSE "rejected",
                       <<>>, <<Query("audit-write", a)>>, {id}))
    ELSE Effect(visitors, audit,
                Result("checkOutVisitor", [NoArgs EXCEPT !.ids = {id}], "rejected",
                       Thrown(updateDocError(w)), <<Query("visitor-write", updateDocError(w))>>, {}))

\* Variant: a failed update is logged and swallowed.
checkOutVisitor_WriteSwallowed(id, w, a) ==
  IF UpdateApplies(id, w)
    THEN Effect(updateDoc({id}, "checked-out"),
                logAudit("visitor_check_out", id, a),
                Result("checkOutVisitor", [NoArgs EXCEPT !.ids = {id}], "resolved",
                       <<>>, <<Query("audit-write", a)>>, {id}))
    ELSE Effect(visitors, audit,
                Result("checkOutVisitor", [NoArgs EXCEPT !.ids = {id}], "resolved",
                       <<>>, <<Query("visitor-write", updateDocError(w))>>, {}))

\* checkOutVisitor(visitorId)
checkOutVisitor(id, w, a) ==
  IF UpdateApplies(id, w)
    THEN Effect(updateDoc({id}, "checked-out"),
                logAudit("visitor_check_out", id, a),
                Result("checkOutVisitor", [NoArgs EXCEPT !.ids = {id}], "resolved",
                       <<>>, <<Query("audit-write", a)>>, {id}))
    ELSE Effect(visitors, audit,
                Result("checkOutVisitor", [NoArgs EXCEPT !.ids = {id}], "rejected",
                       Thrown(updateDocError(w)), <<Query("visitor-write", updateDocError(w))>>, {}))

\* Variant: the writes go out as one batch, applied only when all succeed.
emergencyEvacuation_Batch(ids, ok) ==
  Effect(IF ids \subseteq (ok \cap DOMAIN visitors)
           THEN updateDoc(ok \cap DOMAIN visitors, "emergency-evacuated")
           ELSE visitors,
         audit,
         Result("emergencyEvacuation", [NoArgs EXCEPT !.ids = ids],
                IF ids \subseteq (ok \cap DOMAIN visitors) THEN "resolved" ELSE "rejected",
                <<>>, <<>>, ok \cap DOMAIN visitors))

\* emergencyEvacuation(visitorIds): one updateDoc per id, all issued before any
\* is awaited; ok holds the ids whose write the backend accepts.  Promise.all
\* rejects as soon as one write fails, with that write's error alone.
emergencyEvacuation(ids, ok) ==
  Effect(updateDoc(ok \cap DOMAIN visitors, "emergency-evacuated"),
         audit,
         Result("emergencyEvacuation", [NoArgs EXCEPT !.ids = ids],
                IF ids \subseteq (ok \cap DOMAIN visitors) THEN "resolved" ELSE "rejected",
                <<>>, <<>>, ok \cap DOMAIN visitors))

\* ------------------------------------------------------------------- reads
\* Variant: the indexed query orders by checkOutTime, a field that records
\* still checked in do not carry.
getActiveVisitors_ByCheckOutTime(r1, r2) ==
  IF r1 = "ok"
    THEN Result("getActiveVisitors", NoArgs, "resolved",
                MapDocs(OrderByCheckInTimeDesc(
                  {id \in ActiveIds : visitors[id].checkOutTime # NoTime})),
                <<Query("active-ordered", r1)>>, {})
  ELSE IF r1 = "failed-precondition"
    THEN IF r2 = "ok"
           THEN Result("getActiveVisitors", NoArgs, "resolved",
                       SortNewestFirst(MapDocs(OrderAsc(ActiveIds))),
                       <<Query("active-ordered", r1), Query("active", r2)>>, {})
           ELSE Result("getActiveVisitors", NoArgs, "rejected", <<>>,
                       <<Query("active-ordered", r1), Query("active", r2)>>, {})
  ELSE Result("getActiveVisitors", NoArgs, "resolved", <<>>,
              <<Query("active-ordered", r1)>>, {})

\* getActiveVisitors
getActiveVisitors(r1, r2) ==
  IF r1 = "ok"
    THEN Result("getActiveVisitors", NoArgs, "resolved",
                MapDocs(OrderByCheckInTimeDesc(ActiveIds)),
                <<Query("active-ordered", r1)>>, {})
  ELSE IF r1 = "failed-precondition"
    THEN IF r2 = "ok"
           THEN Result("getActiveVisitors", NoArgs, "resolved",
                       SortNewestFirst(MapDocs(OrderAsc(ActiveIds))),
                       <<Query("active-ordered", r1), Query("active", r2)>>, {})
           ELSE Result("getActiveVisitors", NoArgs, "rejected", <<>>,
                       <<Query("active-ordered", r1), Query("active", r2)>>, {})
  ELSE Result("getActiveVisitors", NoArgs, "resolved", <<>>,
              <<Query("active-ordered", r1)>>, {})

\* subscribeToActiveVisitors: what one snapshot (or the error) hands to the
\* subscriber's callback.
subscribeToActiveVisitors(r) ==
  IF r = "ok"
    THEN Result("subscribeToActiveVisitors", NoArgs, "delivered",
                SortNewestFirst(MapDocs(OrderAsc(ActiveIds))),
                <<Query("active", r)>>, {})
    ELSE Result("subscribeToActiveVisitors", NoArgs, "delivered", <<>>,
                <<Query("active", r)>>, {})

\* The filter of the date-range fallback:
\* v.checkInTime && v.checkInTime >= startOfDay(startDate) && v.checkInTime <= endOfDay(endDate)
InDateRange(v, fromDate, toDate) ==
  /\ v.checkInTime # NoTime
  /\ v.checkInTime >= startOfDay(fromDate)
  /\ v.checkInTime <= endOfDay(toDate)

\* Variant: the upper bound is endDate itself, not the end of its day.
getVisitorsByDateRange_RawEnd(fromDate, toDate, r1, r2) ==
  LET args == [NoArgs EXCEPT !.from = fromDate, !.to = toDate]
      hit(v) == v.checkInTime # NoTime /\ v.checkInTime >= startOfDay(fromDate)
                  /\ v.checkInTime <= toDate
  IN IF r1 = "ok"
       THEN Result("getVisitorsByDateRange", args, "resolved",
                   MapDocs(OrderByCheckInTimeDesc(
                     {id \in DOMAIN visitors : hit(visitors[id])})),
                   <<Query("range-ordered", r1)>>, {})
     ELSE IF r2 = "ok"
       THEN Result("getVisitorsByDateRange", args, "resolved",
                   SortNewestFirst(SelectSeq(MapDocs(OrderAsc(DOMAIN visitors)), hit)),
                   <<Query("range-ordered", r1), Query("all", r2)>>, {})
     ELSE Result("getVisitorsByDateRange", args, "rejected", <<>>,
                 <<Query("range-ordered", r1), Query("all", r2)>>, {})

\* getVisitorsByDateRange(startDate, endDate): the range query; on any error
\* the whole collection, filtered and sorted on the client.  The fallback is
\* awaited inside the catch block, so its failure rejects the call.
getVisitorsByDateRange(fromDate, toDate, r1, r2) ==
  LET args == [NoArgs EXCEPT !.from = fromDate, !.to = toDate]
      hit(v) == InDateRange(v, fromDate, toDate)
  IN IF r1 = "ok"
       THEN Result("getVisitorsByDateRange", args, "resolved",
                   MapDocs(OrderByCheckInTimeDesc(
                     {id \in DOMAIN visitors :
                        /\ visitors[id].checkInTime >= startOfDay(fromDate)
                        /\ visitors[id].checkInTime <= endOfDay(toDate)})),
                   <<Query("range-ordered", r1)>>, {})
     ELSE IF r2 = "ok"
       THEN Result("getVisitorsByDateRange", args, "resolved",
                   SortNewestFirst(SelectSeq(MapDocs(OrderAsc(DOMAIN visitors)), hit)),
                   <<Query("range-ordered", r1), Query("all", r2)>>, {})
     ELSE Result("getVisitorsByDateRange", args, "rejected", <<>>,
                 <<Query("range-ordered", r1), Query("all", r2)>>, {})

\* getTodayVisitors: the primary query is orderBy('checkInTime', 'desc') with
\* no where clause; the index-missing fallback reads the whole collection and
\* keeps the records checked in since local midnight.
getTodayVisitors(r1, r2) ==
  LET todayStart == startOfDay(now)
      today(v) == v.checkInTime # NoTime /\ v.checkInTime >= todayStart
  IN IF r1 = "ok"
       THEN Result("getTodayVisitors", NoArgs, "resolved",
                   MapDocs(OrderByCheckInTimeDesc(DOMAIN visitors)),
                   <<Query("all-ordered", r1)>>, {})
     ELSE IF r1 = "failed-precondition"
       THEN IF r2 = "ok"
              THEN Result("getTodayVisitors", NoArgs, "resolved",
                          SortNewestFirst(SelectSeq(MapDocs(OrderAsc(DOMAIN visitors)), today)),
                          <<Query("all-ordered", r1), Query("all", r2)>>, {})
              ELSE Result("getTodayVisitors", NoArgs, "rejected", <<>>,
                          <<Query("all-ordered", r1), Query("all", r2)>>, {})
     ELSE Result("getTodayVisitors", NoArgs, "resolved", <<>>,
                 <<Query("all-ordered", r1)>>, {})

\* findVisitorByIdNumber: the first matching document, or null (an empty
\* value) when none matches or the query fails.
findVisitorByIdNumber(visitorIdNumber, r) ==
  LET hits == OrderAsc({id \in DOMAIN visitors :
                          visitors[id].visitorIdNumber = visitorIdNumber})
  IN Result("findVisitorByIdNumber", [NoArgs EXCEPT !.key = visitorIdNumber], "resolved",
            IF r = "ok" /\ hits # <<>> THEN <<mapDocToVisitor(hits[1])>> ELSE <<>>,
            <<Query("by-id-number", r)>>, {})

\* A scanned payload: text that JSON.parse rejects, or an object with its id
\* and visitorId members (0: member absent).
QRCodes ==
  {[json |-> FALSE, id |-> 0, visitorId |-> 0]} \cup
  {[json |-> TRUE, id |-> i, visitorId |-> v] : i \in 0..MaxIdNumber, v \in 0..MaxIdNumber}

\* findVisitorByQRCode: parsed.id || parsed.visitorId, then the lookup above;
\* null without a query when the payload does not parse or names no id.
findVisitorByQRCode(qrCodeData, r) ==
  LET id == IF qrCodeData.id # 0 THEN qrCodeData.id ELSE qrCodeData.visitorId
  IN IF qrCodeData.json /\ id # 0
       THEN [findVisitorByIdNumber(id, r) EXCEPT !.op = "findVisitorByQRCode"]
       ELSE Result("findVisitorByQRCode", NoArgs, "resolved", <<>>, <<>>, {})

\* getAllVisitors
getAllVisitors(r) ==
  Result("getAllVisitors", NoArgs, "resolved",
         IF r = "ok" THEN MapDocs(OrderAsc(DOMAIN visitors)) ELSE <<>>,
         <<Query("all", r)>>, {})

\* getAllAuditLogs
getAllAuditLogs(r) ==
  Result("getAllAuditLogs", NoArgs, "resolved",
         IF r = "ok" THEN audit ELSE <<>>,
         <<Query("audit", r)>>, {})

\* ----------------------------------------------------------------- actions
\* A call runs when the previous call's result has been taken, and while the
\* audit collection has room for what it logs.
Idle == last.op = "none"

Apply(e) ==
  /\ Len(e.audit) <= MaxAudit
  /\ visitors' = e.visitors
  /\ audit' = e.audit
  /\ last' = e.result
  /\ UNCHANGED <<now, dashVars, appVars, driveVars>>

Return(r) ==
  /\ last' = r
  /\ UNCHANGED <<visitors, audit, now, dashVars, appVars, driveVars>>

\* N: the id numbers given to new records; A: the answers of the audit write.
CheckInVisitor(N, A) ==
  /\ Idle
  /\ \E id \in Ids \ DOMAIN visitors, idNumber \in N, w \in Outcomes, a \in A :
       Apply(checkInVisitor(id, idNumber, w, a))

CheckOutVisitor(A) ==
  /\ Idle
  /\ \E id \in Ids, w \in Outcomes, a \in A : Apply(checkOutVisitor(id, w, a))

EmergencyEvacuation ==
  /\ Idle
  /\ \E ids \in SUBSET Ids, ok \in SUBSET Ids :
       /\ ok \subseteq ids
       /\ Apply(emergencyEvacuation(ids, ok))

GetActiveVisitors ==
  /\ Idle
  /\ \E r1 \in Outcomes, r2 \in FallbackOutcomes : Return(getActiveVisitors(r1, r2))

OnActiveSnapshot ==
  /\ Idle
  /\ \E r \in Outcomes : Return(subscribeToActiveVisitors(r))

GetVisitorsByDateRange ==
  /\ Idle
  /\ \E fromDate \in 0..ReadHorizon, toDate \in 0..ReadHorizon,
        r1 \in Outcomes, r2 \in FallbackOutcomes :
       Return(getVisitorsByDateRange(fromDate, toDate, r1, r2))

GetTodayVisitors ==
  /\ Idle
  /\ \E r1 \in Outcomes, r2 \in FallbackOutcomes : Return(getTodayVisitors(r1, r2))

FindVisitorByIdNumber ==
  /\ Idle
  /\ \E n \in IdNumbers, r \in Outcomes : Return(findVisitorByIdNumber(n, r))

FindVisitorByQRCode ==
  /\ Idle
  /\ \E c \in QRCodes, r \in Outcomes : Return(findVisitorByQRCode(c, r))

GetAllVisitors ==
  /\ Idle
  /\ \E r \in Outcomes : Return(getAllVisitors(r))

GetAllAuditLogs ==
  /\ Idle
  /\ \E r \in Outcomes : Return(getAllAuditLogs(r))

\* The caller takes the settled call's result.
TakeResult ==
  /\ ~Idle
  /\ last' = NoCall
  /\ UNCHANGED <<visitors, audit, now, dashVars, appVars, driveVars>>

Tick ==
  /\ Idle
  /\ now < MaxClock
  /\ now' = now + 1
  /\ UNCHANGED <<visitors, audit, last, dashVars, appVars, driveVars>>

\* ------------------------------------------- FrontDeskDashboard (date range)
NoDate == NoTime
LookbackDays == 30

\* The component before it is mounted.
DashUnmounted ==
  /\ dashLoad = "idle"
  /\ loading = TRUE
  /\ listening = FALSE
  /\ activeVisitors = <<>>
  /\ allVisitors = <<>>
  /\ startDate = NoDate
  /\ endDate = NoDate
  /\ searchTerm = 0
  /\ selectedIds = {}
  /\ alertMsg = "none"

\* Mounted: useState initial values; the effect has subscribed and has called
\* loadAllVisitors.
DashMounted ==
  /\ dashLoad = "pending"
  /\ loading = TRUE
  /\ listening = TRUE
  /\ activeVisitors = <<>>
  /\ allVisitors = <<>>
  /\ startDate = startOfDay(now)
  /\ endDate = endOfDay(now)
  /\ searchTerm = 0
  /\ selectedIds = {}
  /\ alertMsg = "none"

\* isWithinInterval(date, {start, end}) for start <= end.
isWithinInterval(t, s, e) == s <= t /\ t <= e

filteredByDate ==
  IF startDate = NoDate \/ endDate = NoDate THEN <<>>
  ELSE LET keep(v) == /\ v.checkInTime # NoTime
                      /\ isWithinInterval(v.checkInTime, startOfDay(startDate), endOfDay(endDate))
       IN SelectSeq(allVisitors, keep)

\* The search box: the empty term (0) is contained in every field; another
\* term matches the visitor whose id number it is.
MatchesSearch(v, term) == term = 0 \/ v.visitorIdNumber = term

displayedVisitors ==
  LET hit(v) == MatchesSearch(v, searchTerm)
  IN SortNewestFirst(SelectSeq(filteredByDate, hit))

checkInVisitorsInView ==
  LET in(v) == v.status = "checked-in"
  IN SelectSeq(displayedVisitors, in)

ViewIds == {checkInVisitorsInView[i].id : i \in 1..Len(checkInVisitorsInView)}

\* The effect that keeps the select-all flag: set when the view is not empty
\* and all of it is selected.
selectAll == ViewIds # {} /\ ViewIds \subseteq selectedIds

\* loadAllVisitors: the last 30 days, once, from the mount effect.
LoadAllVisitors ==
  /\ dashLoad = "pending"
  /\ \E r1 \in Outcomes, r2 \in FallbackOutcomes :
       LET r == getVisitorsByDateRange(now - LookbackDays * DayLen, now, r1, r2)
       IN IF r.outcome = "resolved"
            THEN dashLoad' = "done" /\ allVisitors' = r.value
            ELSE dashLoad' = "failed" /\ UNCHANGED allVisitors
  /\ UNCHANGED <<driveVars, appVars, svcVars, loading, listening, activeVisitors, startDate, endDate,
                 searchTerm, selectedIds, alertMsg>>

\* The subscription callback: a snapshot when the listener attaches and after
\* each change of the query's result; an error ends the listener.
DashActiveSnapshot ==
  /\ listening
  /\ \E r \in {"ok", "unavailable"} :
       LET d == subscribeToActiveVisitors(r)
       IN /\ loading \/ r # "ok" \/ d.value # activeVisitors
          /\ activeVisitors' = d.value
          /\ listening' = (r = "ok")
  /\ loading' = FALSE
  /\ UNCHANGED <<driveVars, appVars, svcVars, dashLoad, allVisitors, startDate, endDate, searchTerm,
                 selectedIds, alertMsg>>

\* The checkbox of a row shown as checked in.
ToggleVisitor ==
  /\ ~loading
  /\ \E id \in ViewIds :
       selectedIds' = IF id \in selectedIds THEN selectedIds \ {id}
                      ELSE selectedIds \cup {id}
  /\ UNCHANGED <<driveVars, appVars, svcVars, dashLoad, loading, listening, activeVisitors, allVisitors,
                 startDate, endDate, searchTerm, alertMsg>>

ToggleSelectAll ==
  /\ ~loading
  /\ ViewIds # {}
  /\ selectedIds' = IF selectAll THEN {} ELSE ViewIds
  /\ UNCHANGED <<driveVars, appVars, svcVars, dashLoad, loading, listening, activeVisitors, allVisitors,
                 startDate, endDate, searchTerm, alertMsg>>

\* handleSingleCheckOut, confirmed: the "Check Out" button of a row shown as
\* checked in.
HandleSingleCheckOut(A) ==
  /\ ~loading
  /\ \E id \in ViewIds, w \in Outcomes, a \in A :
       LET e == checkOutVisitor(id, w, a)
       IN /\ Len(e.audit) <= MaxAudit
          /\ visitors' = e.visitors
          /\ audit' = e.audit
          /\ IF e.result.outcome = "resolved"
               THEN selectedIds' = selectedIds \ {id} /\ UNCHANGED alertMsg
               ELSE alertMsg' = "Checkout failed. Please try again." /\ UNCHANGED selectedIds
  /\ UNCHANGED <<driveVars, appVars, now, last, dashLoad, loading, listening, activeVisitors, allVisitors,
                 startDate, endDate, searchTerm>>

\* DatePicker onChange (selectsRange): the first click gives the start of the
\* range and no end, the second click the whole range; dates are midnights.
PickableDays == {d * DayLen : d \in 0..(MaxDays - 1)}

SetDateRange ==
  /\ ~loading
  /\ \E d1 \in PickableDays, d2 \in PickableDays \cup {NoDate} :
       /\ d2 = NoDate \/ d1 <= d2
       /\ startDate' = d1
       /\ endDate' = d2
  /\ UNCHANGED <<driveVars, appVars, svcVars, dashLoad, loading, listening, activeVisitors, allVisitors,
                 searchTerm, selectedIds, alertMsg>>

\* The search box.
SetSearchTerm ==
  /\ ~loading
  /\ \E term \in {0} \cup IdNumbers : searchTerm' = term
  /\ UNCHANGED <<driveVars, appVars, svcVars, dashLoad, loading, listening, activeVisitors, allVisitors,
                 startDate, endDate, selectedIds, alertMsg>>

\* The audit documents of the check-outs of S, in document-id order.
RECURSIVE AuditAll(_, _)
AuditAll(S, log) ==
  IF S = {} THEN log
  ELSE LET id == CHOOSE x \in S : \A y \in S : x <= y
       IN AuditAll(S \ {id},
                   Append(log, [action |-> "visitor_check_out", visitorId |-> id,
                                timestamp |-> now]))

\* Variant: the check-outs are applied only when all of them succeed.
HandleBulkCheckOut_Rollback(A) ==
  /\ ~loading
  /\ selectedIds # {}
  /\ \E ok \in SUBSET selectedIds, logged \in SUBSET selectedIds :
       /\ logged \subseteq ok
       /\ "ok" \in A \/ logged = {}
       /\ IF selectedIds \subseteq (ok \cap DOMAIN visitors)
            THEN /\ visitors' = updateDoc(ok \cap DOMAIN visitors, "checked-out")
                 /\ audit' = AuditAll(logged \cap DOMAIN visitors, audit)
                 /\ selectedIds' = {}
                 /\ alertMsg' = "visitors checked out successfully!"
            ELSE /\ alertMsg' = "Some checkouts failed. Please try again."
                 /\ UNCHANGED <<visitors, audit, selectedIds>>
  /\ UNCHANGED <<driveVars, appVars, now, last, dashLoad, loading, listening, activeVisitors, allVisitors,
                 startDate, endDate, searchTerm>>

\* handleBulkCheckOut, confirmed: one checkOutVisitor per selected id, all
\* started together; ok holds the ids whose update the backend accepts and
\* logged those whose audit document it accepts.
HandleBulkCheckOut(A) ==
  /\ ~loading
  /\ selectedIds # {}
  /\ \E ok \in SUBSET selectedIds, logged \in SUBSET selectedIds :
       /\ logged \subseteq ok
       /\ "ok" \in A \/ logged = {}
       /\ visitors' = updateDoc(ok \cap DOMAIN visitors, "checked-out")
       /\ audit' = AuditAll(logged \cap DOMAIN visitors, audit)
       /\ Len(audit') <= MaxAudit
       /\ IF selectedIds \subseteq (ok \cap DOMAIN visitors)
            THEN selectedIds' = {} /\ alertMsg' = "visitors checked out successfully!"
            ELSE alertMsg' = "Some checkouts failed. Please try again."
                 /\ UNCHANGED selectedIds
  /\ UNCHANGED <<driveVars, appVars, now, last, dashLoad, loading, listening, activeVisitors, allVisitors,
                 startDate, endDate, searchTerm>>

\* ------------------------------------------------------------------ AppContent
NoUser == "none"
UserRole == {"super-admin", "admin", "hierarchy-person", "front-desk"}
Paths == {"/", "/login", "/signup", "/admin", "/front-desk", "/hierarchy"}
ProtectedPaths == {"/admin", "/front-desk", "/hierarchy"}
MaxInit == 2

getDefaultPathForUser(user) ==
  CASE user \in {"super-admin", "admin"} -> "/admin"
    [] user = "hierarchy-person" -> "/hierarchy"
    [] user = "front-desk" -> "/front-desk"
    [] OTHER -> "/login"

\* Variant: any logged-in user is admitted.
ProtectedRoute_AnyUser(user, requiredRole) ==
  IF user = NoUser THEN "/login" ELSE "children"

\* Variant: no exemption for 'super-admin'.
ProtectedRoute_OwnRoleOnly(user, requiredRole) ==
  IF user = NoUser THEN "/login"
  ELSE IF requiredRole # "" /\ user # requiredRole THEN "/"
  ELSE "children"

\* ProtectedRoute: the path of the <Navigate> it returns, or "children".
ProtectedRoute(user, requiredRole) ==
  IF user = NoUser THEN "/login"
  ELSE IF requiredRole # "" /\ user # requiredRole /\ user # "super-admin" THEN "/"
  ELSE "children"

\* <Routes>: what the element of the route of path returns.
RouteElement(path, user) ==
  CASE path = "/admin" -> ProtectedRoute(user, "admin")
    [] path = "/front-desk" -> ProtectedRoute(user, "front-desk")
    [] path = "/hierarchy" -> ProtectedRoute(user, "hierarchy-person")
    [] OTHER -> "children"

\* Where a render of path ends up: the path itself, or the target of the
\* <Navigate replace> its element returned (a page that is not guarded).
Land(path, user) ==
  LET e == RouteElement(path, user) IN IF e = "children" THEN path ELSE e

\* One initializeAuth call: whether the pathname its closure captured is one
\* of '/', '/login', '/signup'; "waiting" until the timer and getCurrentUser
\* are through, then "fetched" with the user it got.
InitializeAuth(path) ==
  [public |-> path \in {"/", "/login", "/signup"}, phase |-> "waiting", user |-> NoUser]

\* The effect runs after every commit whose pathname differs from the one before.
Started(from, path, user) ==
  (IF path # from THEN {InitializeAuth(path)} ELSE {})
    \cup (IF Land(path, user) # path THEN {InitializeAuth(Land(path, user))} ELSE {})

\* The location becomes path while user is the current user and inits are the
\* calls still in flight.
navigate(path, user, inits) ==
  /\ pathname' = Land(path, user)
  /\ authInits' = inits \cup Started(pathname, path, user)
  /\ Cardinality(authInits') <= MaxInit
  /\ visited' = visited \cup ({Land(path, user)} \cap ProtectedPaths)
  /\ nav' = [requested |-> path, user |-> user, landed |-> Land(path, user)]

AppUnmounted ==
  /\ currentUser = NoUser
  /\ pathname = "/"
  /\ session = NoUser
  /\ checkInMode = "null"
  /\ emergencyMode = FALSE
  /\ returningVisitor = "null"
  /\ logoutPending = FALSE
  /\ authInits = {}
  /\ visited = {}
  /\ nav = [requested |-> "/", user |-> NoUser, landed |-> "/"]

\* A page load at path: the component state and the services start over; the
\* session, local storage and the tab's history persist.  A logout request still in flight may or may not
\* have reached the backend.
LoadPage ==
  /\ \E path \in Paths :
       /\ pathname' = Land(path, NoUser)
       /\ authInits' = {InitializeAuth(path), InitializeAuth(Land(path, NoUser))}
       /\ UNCHANGED visited
       /\ nav' = [requested |-> path, user |-> NoUser, landed |-> Land(path, NoUser)]
  /\ currentUser' = NoUser
  /\ checkInMode' = "null"
  /\ emergencyMode' = FALSE
  /\ returningVisitor' = "null"
  /\ logoutPending' = FALSE
  /\ session' \in {session} \cup (IF logoutPending THEN {NoUser} ELSE {})
  \* The GoogleDriveService constructor reads the token back from local
  \* storage; BackupSettings is not mounted.
  /\ accessToken' = storedToken
  /\ tokenExpiration' = storedExpiry
  /\ isAuthorized' = FALSE
  /\ isBackingUp' = FALSE
  /\ lastBackup' = NoTime
  /\ backupError' = "null"
  /\ lastStart' = NoTime
  /\ connectedSince' = NoTime
  /\ scriptLoaded' = FALSE
  /\ signInCall' = [phase |-> "none", attempts |-> 0, timer |-> FALSE,
                    outcome |-> "none", expires_in |-> 0, caller |-> "none"]
  /\ dashBackup' = "none"
  /\ upload' = [outcome |-> "none", requests |-> 0, error |-> "null"]
  /\ UNCHANGED <<svcVars, dashVars, storedToken, storedExpiry, storedClientId>>

\* Back / forward to a guarded page among the entries of the history.
HistoryGo ==
  /\ \E path \in visited \ {pathname} : navigate(path, currentUser, authInits)
  /\ UNCHANGED <<driveVars, svcVars, dashVars, currentUser, session, checkInMode, emergencyMode,
                 returningVisitor, logoutPending>>

\* The buttons that call navigate(): "Staff Login" on '/', onBackToCheckIn and
\* onNavigateToSignup on '/login', onBackToLogin on '/signup', onCheckInClick
\* on '/front-desk'.
Links(path) ==
  CASE path = "/" -> IF checkInMode = "null" THEN {"/login"} ELSE {}
    [] path = "/login" -> {"/", "/signup"}
    [] path = "/signup" -> {"/login"}
    [] path = "/front-desk" -> {"/"}
    [] OTHER -> {}

FollowLink ==
  /\ \E path \in Links(pathname) : navigate(path, currentUser, authInits)
  /\ UNCHANGED <<driveVars, svcVars, dashVars, currentUser, session, checkInMode, emergencyMode,
                 returningVisitor, logoutPending>>

\* Login succeeds as a user of some role: authService keeps the session and the
\* Login page calls onLoginSuccess.
HandleLoginSuccess ==
  /\ pathname = "/login"
  /\ \E user \in UserRole :
       /\ session' = user
       /\ currentUser' = user
       /\ navigate(getDefaultPathForUser(user), user, authInits)
  /\ UNCHANGED <<driveVars, svcVars, dashVars, checkInMode, emergencyMode, returningVisitor,
                 logoutPending>>

\* handleLogout up to its await: the logout buttons of the Header and of the
\* admin dashboard.
HandleLogout ==
  /\ pathname \notin {"/login", "/signup"}
  /\ ~logoutPending
  /\ logoutPending' = TRUE
  /\ UNCHANGED <<driveVars, svcVars, dashVars, currentUser, pathname, session, checkInMode,
                 emergencyMode, returningVisitor, authInits, visited, nav>>

\* handleLogout after authService.logout() has settled.
HandleLogoutSettled ==
  /\ logoutPending
  /\ logoutPending' = FALSE
  /\ \E ok \in BOOLEAN :
       IF ok
         THEN /\ session' = NoUser
              /\ currentUser' = NoUser
              /\ navigate("/", NoUser, authInits)
              /\ checkInMode' = "null"
              /\ returningVisitor' = "null"
         ELSE UNCHANGED <<session, currentUser, pathname, authInits, visited, nav,
                          checkInMode, returningVisitor>>
  /\ UNCHANGED <<driveVars, svcVars, dashVars, emergencyMode>>

\* initializeAuth up to the end of `await authService.getCurrentUser()`.
InitializeAuthFetched ==
  /\ \E i \in authInits, ok \in BOOLEAN :
       /\ i.phase = "waiting"
       /\ authInits' = IF ok /\ session # NoUser
                         THEN (authInits \ {i}) \cup {[i EXCEPT !.phase = "fetched", !.user = session]}
                         ELSE authInits \ {i}
  /\ UNCHANGED <<driveVars, svcVars, dashVars, currentUser, pathname, session, checkInMode,
                 emergencyMode, returningVisitor, logoutPending, visited, nav>>

\* initializeAuth from setCurrentUser(user) on.
InitializeAuthApply ==
  /\ \E i \in authInits :
       /\ i.phase = "fetched"
       /\ currentUser' = i.user
       /\ navigate(IF i.public THEN getDefaultPathForUser(i.user) ELSE pathname,
                   i.user, authInits \ {i})
  /\ UNCHANGED <<driveVars, svcVars, dashVars, session, checkInMode, emergencyMode,
                 returningVisitor, logoutPending>>

\* handleEmergencyToggle: the button of the Header and of the front-desk
\* dashboard.
HandleEmergencyToggle ==
  /\ pathname \in {"/", "/front-desk", "/hierarchy"}
  /\ emergencyMode' = ~emergencyMode
  /\ UNCHANGED <<driveVars, svcVars, dashVars, currentUser, pathname, session, checkInMode,
                 returningVisitor, logoutPending, authInits, visited, nav>>

\* The handlers of AppContent that the page rendered at path hands to a
\* component as a prop (handleLogout reaches the Header and the admin
\* dashboard as onLogout, handleEmergencyToggle the Header and the front-desk
\* dashboard as onEmergencyToggle, and so on).
Passed(path) ==
  CASE path = "/" ->
         {"handleEmergencyToggle", "handleLogout"}
           \cup (IF checkInMode = "check-in" THEN {"handleCheckInComplete"} ELSE {})
    [] path = "/login" -> {"handleLoginSuccess"}
    [] path = "/admin" -> {"handleLogout"}
    [] path \in {"/front-desk", "/hierarchy"} -> {"handleEmergencyToggle", "handleLogout"}
    [] OTHER -> {}

\* handleEmergencyEvacuation(visitorIds): the evacuation, then one alert.
HandleEmergencyEvacuation ==
  /\ "handleEmergencyEvacuation" \in Passed(pathname)
  /\ \E ids \in SUBSET Ids, ok \in SUBSET Ids :
       /\ ok \subseteq ids
       /\ LET e == emergencyEvacuation(ids, ok)
          IN /\ visitors' = e.visitors
             /\ audit' = e.audit
             /\ alertMsg' = IF e.result.outcome = "resolved"
                              THEN "Emergency evacuation completed"
                              ELSE "Emergency evacuation failed. Please try again."
  /\ UNCHANGED <<driveVars, now, last, appVars, dashLoad, loading, listening, activeVisitors,
                 allVisitors, startDate, endDate, searchTerm, selectedIds>>

\* handleCheckIn
HandleCheckIn ==
  /\ "handleCheckIn" \in Passed(pathname)
  /\ checkInMode' = "check-in"
  /\ UNCHANGED <<driveVars, svcVars, dashVars, currentUser, pathname, session, emergencyMode,
                 returningVisitor, logoutPending, authInits, visited, nav>>

\* handleCheckOut
HandleCheckOut ==
  /\ "handleCheckOut" \in Passed(pathname)
  /\ checkInMode' = "check-out"
  /\ UNCHANGED <<driveVars, svcVars, dashVars, currentUser, pathname, session, emergencyMode,
                 returningVisitor, logoutPending, authInits, visited, nav>>

\* ---------------------------------------- GoogleDriveService, BackupSettings
\* The clock ticks HourLen times an hour.  A token is good for expires_in from
\* the moment it is received, less the buffer the service takes off.
HourLen == 2
ExpiryBuffer == 1

\* expires_in of a token response: an hour, or two.
ExpiresIn == {HourLen, 2 * HourLen}

maxAttempts == 50

NoValidToken == "No valid access token. Please sign in to Google Drive."
ScriptNotLoaded ==
  "Google Identity Services script not loaded. Please check your internet connection and refresh."

NoSignIn ==
  [phase |-> "none", attempts |-> 0, timer |-> FALSE, outcome |-> "none",
   expires_in |-> 0, caller |-> "none"]

NoUpload == [outcome |-> "none", requests |-> 0, error |-> "null"]

\* The service and BackupSettings where nobody has connected Google Drive.
DriveUnused ==
  /\ accessToken = 0
  /\ tokenExpiration = 0
  /\ storedToken = 0
  /\ storedExpiry = 0
  /\ storedClientId = FALSE
  /\ isAuthorized = FALSE
  /\ isBackingUp = FALSE
  /\ lastBackup = NoTime
  /\ backupError = "null"
  /\ lastStart = NoTime
  /\ connectedSince = NoTime
  /\ scriptLoaded = FALSE
  /\ signInCall = NoSignIn
  /\ dashBackup = "none"
  /\ upload = NoUpload

isTokenValid == accessToken # 0 /\ now < tokenExpiration

\* Variant: no look at the token before the request.
uploadData_Unchecked(server) ==
  IF server = "ok"
    THEN [outcome |-> "resolved", requests |-> 1, error |-> "null"]
  ELSE [outcome |-> "rejected", requests |-> 1, error |-> "Upload failed"]

\* uploadData: rejects before any request without a valid token; otherwise one
\* POST, which the server takes or refuses.
uploadData(server) ==
  IF ~isTokenValid
    THEN [outcome |-> "rejected", requests |-> 0, error |-> NoValidToken]
  ELSE IF server = "ok"
    THEN [outcome |-> "resolved", requests |-> 1, error |-> "null"]
  ELSE [outcome |-> "rejected", requests |-> 1, error |-> "Upload failed"]

\* What a token callback (or signInWithFirebase) does with a token good for
\* expiresIn: the token is kept in memory and in local storage, with its expiry.
TokenReceived(expiresIn) ==
  /\ accessToken' = 1
  /\ tokenExpiration' = now + expiresIn - ExpiryBuffer
  /\ storedToken' = 1
  /\ storedExpiry' = now + expiresIn - ExpiryBuffer

\* initAndSignIn(clientId), as called: the interval is set.
initAndSignIn(caller) ==
  [phase |-> "polling", attempts |-> 0, timer |-> TRUE, outcome |-> "none",
   expires_in |-> 0, caller |-> caller]

SignInInFlight == signInCall.phase \in {"polling", "requested"}

\* What the caller awaiting the sign-in does when it settles: handleAuthorize
\* of BackupSettings, or the dashboard's handler, whose ensureAuthorized returns
\* or throws and which then calls createBackup or alerts.
SignInSettled(caller, ok, message) ==
  IF caller = "settings"
    THEN /\ IF ok
              THEN /\ storedClientId' = TRUE
                   /\ isAuthorized' = TRUE
                   /\ backupError' = "null"
                   /\ connectedSince' = now
              ELSE /\ backupError' = "Authorization failed: " \o message
                   /\ UNCHANGED <<storedClientId, isAuthorized, connectedSince>>
         /\ UNCHANGED <<dashBackup, lastStart, alertMsg>>
    ELSE /\ IF ok
              THEN /\ dashBackup' = "reading"
                   /\ lastStart' = now
                   /\ UNCHANGED alertMsg
              ELSE /\ dashBackup' = "none"
                   /\ alertMsg' = "Backup failed: " \o message
                   /\ UNCHANGED lastStart
         /\ UNCHANGED <<storedClientId, isAuthorized, backupError, connectedSince>>

\* The Google Identity Services script finishes loading.
ScriptLoads ==
  /\ ~scriptLoaded
  /\ scriptLoaded' = TRUE
  /\ UNCHANGED <<svcVars, dashVars, appVars, accessToken, tokenExpiration, storedToken,
                 storedExpiry, storedClientId, isAuthorized, isBackingUp, lastBackup,
                 backupError, lastStart, connectedSince, signInCall, dashBackup, upload>>

\* BackupSettings.handleAuthorize with a client id typed in ('Connect Google
\* Drive' is disabled without one), up to its await.
HandleAuthorize ==
  /\ ~isAuthorized
  /\ ~SignInInFlight
  /\ signInCall' = initAndSignIn("settings")
  /\ UNCHANGED <<svcVars, dashVars, appVars, accessToken, tokenExpiration, storedToken,
                 storedExpiry, storedClientId, isAuthorized, isBackingUp, lastBackup,
                 backupError, lastStart, connectedSince, scriptLoaded, dashBackup, upload>>

\* initAndSignIn: one run of the interval callback.  With the script there the
\* interval is cleared and the token client is asked for a token; after
\* maxAttempts runs without it the interval is cleared and the call rejects.
\* The counter lives as long as the interval does.
InitAndSignInPoll ==
  /\ signInCall.phase = "polling"
  /\ LET attempts == signInCall.attempts + 1
     IN IF scriptLoaded
          THEN /\ signInCall' = [signInCall EXCEPT !.attempts = 0, !.timer = FALSE,
                                                   !.phase = "requested"]
               /\ UNCHANGED <<storedClientId, isAuthorized, backupError, connectedSince,
                              dashBackup, lastStart, alertMsg>>
        ELSE IF attempts >= maxAttempts
          THEN /\ signInCall' = [signInCall EXCEPT !.attempts = 0, !.timer = FALSE,
                                                   !.phase = "settled",
                                                   !.outcome = "rejected"]
               /\ SignInSettled(signInCall.caller, FALSE, ScriptNotLoaded)
        ELSE /\ signInCall' = [signInCall EXCEPT !.attempts = attempts]
             /\ UNCHANGED <<storedClientId, isAuthorized, backupError, connectedSince,
                            dashBackup, lastStart, alertMsg>>
  /\ UNCHANGED <<svcVars, appVars, dashLoad, loading, listening, activeVisitors,
                 allVisitors, startDate, endDate, searchTerm, selectedIds,
                 accessToken, tokenExpiration, storedToken, storedExpiry,
                 isBackingUp, lastBackup, scriptLoaded, upload>>

\* initAndSignIn: the callback given to initTokenClient, called with a token
\* response that carries an error or a token.
TokenCallback ==
  /\ signInCall.phase = "requested"
  /\ \E error \in BOOLEAN, expiresIn \in ExpiresIn :
       IF error
         THEN /\ expiresIn = HourLen
              /\ signInCall' = [signInCall EXCEPT !.phase = "settled", !.outcome = "rejected"]
              /\ SignInSettled(signInCall.caller, FALSE, "access_denied")
              /\ UNCHANGED <<accessToken, tokenExpiration, storedToken, storedExpiry>>
         ELSE /\ TokenReceived(expiresIn)
              /\ signInCall' = [signInCall EXCEPT !.phase = "settled", !.outcome = "resolved",
                                                  !.expires_in = expiresIn]
              /\ SignInSettled(signInCall.caller, TRUE, "")
  /\ UNCHANGED <<svcVars, appVars, dashLoad, loading, listening, activeVisitors,
                 allVisitors, startDate, endDate, searchTerm, selectedIds,
                 isBackingUp, lastBackup, scriptLoaded, upload>>

\* 'Disconnect / Change Settings'
HandleDisconnect ==
  /\ isAuthorized
  /\ isAuthorized' = FALSE
  /\ storedToken' = 0
  /\ connectedSince' = NoTime
  /\ UNCHANGED <<svcVars, dashVars, appVars, accessToken, tokenExpiration, storedExpiry,
                 storedClientId, isBackingUp, lastBackup, backupError, lastStart,
                 scriptLoaded, signInCall, dashBackup, upload>>

\* BackupSettings.handleBackup ('Backup Now') up to the call of createBackup.
HandleBackup ==
  /\ isAuthorized
  /\ ~isBackingUp
  /\ isBackingUp' = TRUE
  /\ backupError' = "null"
  /\ lastStart' = now
  /\ UNCHANGED <<svcVars, dashVars, appVars, accessToken, tokenExpiration, storedToken,
                 storedExpiry, storedClientId, isAuthorized, lastBackup, connectedSince,
                 scriptLoaded, signInCall, dashBackup, upload>>

\* createBackup settles: the two reads never reject, uploadData ends it.
HandleBackupSettled ==
  /\ isBackingUp
  /\ isBackingUp' = FALSE
  /\ \E server \in {"ok", "error"} :
       /\ upload' = uploadData(server)
       /\ IF upload'.outcome = "resolved"
            THEN lastBackup' = now /\ UNCHANGED backupError
            ELSE backupError' = "Backup failed: " \o upload'.error /\ UNCHANGED lastBackup
  /\ UNCHANGED <<svcVars, dashVars, appVars, accessToken, tokenExpiration, storedToken,
                 storedExpiry, storedClientId, isAuthorized, lastStart, connectedSince,
                 scriptLoaded, signInCall, dashBackup>>

\* The 'Backup to Drive' button of the date-range dashboard, up to the first
\* await that waits: ensureAuthorized returns at once with a valid token and
\* createBackup is called; otherwise it starts initAndSignIn with the stored
\* client id, or signInWithFirebase without one.
DashboardBackup ==
  /\ dashBackup = "none"
  /\ ~SignInInFlight
  /\ IF isTokenValid
       THEN /\ dashBackup' = "reading"
            /\ lastStart' = now
            /\ UNCHANGED signInCall
     ELSE IF storedClientId
       THEN /\ dashBackup' = "authorizing"
            /\ signInCall' = initAndSignIn("dashboard")
            /\ UNCHANGED lastStart
     ELSE /\ dashBackup' = "firebase"
          /\ UNCHANGED <<signInCall, lastStart>>
  /\ UNCHANGED <<svcVars, dashVars, appVars, accessToken, tokenExpiration, storedToken,
                 storedExpiry, storedClientId, isAuthorized, isBackingUp, lastBackup,
                 backupError, connectedSince, scriptLoaded, upload>>

\* signInWithFirebase settles: the popup gave a credential with an access
\* token, taken to be good for an hour, or it did not.
SignInWithFirebaseSettled ==
  /\ dashBackup = "firebase"
  /\ \E credential \in BOOLEAN :
       IF credential
         THEN /\ TokenReceived(HourLen)
              /\ dashBackup' = "reading"
              /\ lastStart' = now
              /\ UNCHANGED alertMsg
         ELSE /\ dashBackup' = "none"
              /\ alertMsg' = "Backup failed: Google Login failed: "
                               \o "Failed to get Google Access Token from login."
              /\ UNCHANGED <<accessToken, tokenExpiration, storedToken, storedExpiry,
                             lastStart>>
  /\ UNCHANGED <<svcVars, appVars, dashLoad, loading, listening, activeVisitors,
                 allVisitors, startDate, endDate, searchTerm, selectedIds,
                 storedClientId, isAuthorized, isBackingUp, lastBackup, backupError,
                 connectedSince, scriptLoaded, signInCall, upload>>

\* The dashboard's createBackup settles, and the handler alerts.
DashboardBackupSettled ==
  /\ dashBackup = "reading"
  /\ dashBackup' = "none"
  /\ \E server \in {"ok", "error"} :
       /\ upload' = uploadData(server)
       /\ alertMsg' = IF upload'.outcome = "resolved"
                        THEN "Backup successful! File saved to Google Drive."
                        ELSE "Backup failed: " \o upload'.error
  /\ UNCHANGED <<svcVars, appVars, dashLoad, loading, listening, activeVisitors,
                 allVisitors, startDate, endDate, searchTerm, selectedIds,
                 accessToken, tokenExpiration, storedToken, storedExpiry,
                 storedClientId, isAuthorized, isBackingUp, lastBackup, backupError,
                 lastStart, connectedSince, scriptLoaded, signInCall>>

\* ----------------------------------------------------------- specification
\* Spec: the status life cycle.  Every record gets id number 1 and the audit
\* collection refuses writes, which logAudit swallows.
Init ==
  /\ visitors = << >>
  /\ audit = << >>
  /\ now = 0
  /\ last = NoCall
  /\ DashUnmounted
  /\ AppUnmounted
  /\ DriveUnused

Next ==
  \/ Tick
  \/ CheckInVisitor({1}, {"unavailable"})
  \/ CheckOutVisitor({"unavailable"})
  \/ EmergencyEvacuation
  \/ GetActiveVisitors
  \/ OnActiveSnapshot
  \/ TakeResult

Spec == Init /\ [][Next]_vars

\* SpecRead: the reads, applied to the contents the collections can hold after
\* MaxDays days of operation: any records checked in on those days (a record
\* that has left did so at its check-in tick) and one audit document, read on
\* the last day.
StoredRecords ==
  {[visitorIdNumber |-> n, checkInTime |-> t,
    checkOutTime |-> IF st = "checked-in" THEN NoTime ELSE t, status |-> st] :
     n \in {1}, t \in 0..ReadHorizon, st \in Status}

\* The audit document of the first stored record's check-in.
StoredAudit(v) ==
  IF DOMAIN v = {} THEN <<>>
  ELSE LET id == CHOOSE x \in DOMAIN v : \A y \in DOMAIN v : x <= y
       IN <<[action |-> "visitor_check_in", visitorId |-> id,
             timestamp |-> v[id].checkInTime]>>

InitRead ==
  /\ visitors \in UNION {[S -> StoredRecords] : S \in SUBSET Ids}
  /\ audit = StoredAudit(visitors)
  /\ now = ReadHorizon
  /\ last = NoCall
  /\ DashUnmounted
  /\ AppUnmounted
  /\ DriveUnused

NextRead ==
  \/ GetActiveVisitors
  \/ OnActiveSnapshot
  \/ GetVisitorsByDateRange
  \/ GetTodayVisitors
  \/ FindVisitorByIdNumber
  \/ FindVisitorByQRCode
  \/ GetAllVisitors
  \/ GetAllAuditLogs
  \/ TakeResult

SpecRead == InitRead /\ [][NextRead]_vars

\* SpecCheckIn: check-in and check-out with any id number and with an audit
\* collection that accepts or refuses each write, and the lookup by id number,
\* all within one tick of the clock.
NextCheckIn ==
  \/ CheckInVisitor(IdNumbers, {"ok", "unavailable"})
  \/ CheckOutVisitor({"ok", "unavailable"})
  \/ FindVisitorByIdNumber
  \/ TakeResult

SpecCheckIn == Init /\ [][NextCheckIn]_vars

\* SpecAudit: the status life cycle with an audit collection that accepts
\* every write.
NextAudit ==
  \/ CheckInVisitor({1}, {"ok"})
  \/ CheckOutVisitor({"ok"})
  \/ EmergencyEvacuation
  \/ TakeResult

SpecAudit == Init /\ [][NextAudit]_vars

\* SpecDash: the mounted dashboard over a collection of records checked in
\* today or a day earlier, some of which have left already.  The audit
\* collection refuses writes.
DashRecords ==
  {[visitorIdNumber |-> 1, checkInTime |-> t,
    checkOutTime |-> IF st = "checked-in" THEN NoTime ELSE t, status |-> st] :
     t \in {ReadHorizon - DayLen, ReadHorizon}, st \in {"checked-in", "checked-out"}}

InitDash ==
  /\ visitors \in UNION {[S -> DashRecords] : S \in SUBSET Ids}
  /\ audit = StoredAudit(visitors)
  /\ now = ReadHorizon
  /\ last = NoCall
  /\ DashMounted
  /\ AppUnmounted
  /\ DriveUnused

NextDash ==
  \/ LoadAllVisitors
  \/ DashActiveSnapshot
  \/ ToggleVisitor
  \/ ToggleSelectAll
  \/ SetDateRange
  \/ SetSearchTerm
  \/ HandleSingleCheckOut({"unavailable"})
  \/ HandleBulkCheckOut({"unavailable"})

SpecDash == InitDash /\ [][NextDash]_vars

\* SpecDashView: the same dashboard with the date range and the search box left
\* as they were at mount.
NextDashView ==
  \/ LoadAllVisitors
  \/ DashActiveSnapshot
  \/ ToggleVisitor
  \/ ToggleSelectAll
  \/ HandleSingleCheckOut({"unavailable"})
  \/ HandleBulkCheckOut({"unavailable"})

SpecDashView == InitDash /\ [][NextDashView]_vars

\* SpecDashWrites: the dashboard mounted over an empty collection, its single
\* check-out next to the check-ins made at the front desk.
InitDashWrites ==
  /\ visitors = << >>
  /\ audit = <<>>
  /\ now = ReadHorizon
  /\ last = NoCall
  /\ DashMounted
  /\ AppUnmounted
  /\ DriveUnused

NextDashWrites ==
  \/ LoadAllVisitors
  \/ DashActiveSnapshot
  \/ ToggleVisitor
  \/ HandleSingleCheckOut({"ok"})
  \/ CheckInVisitor({1}, {"ok"})
  \/ TakeResult

SpecDashWrites == InitDashWrites /\ [][NextDashWrites]_vars

\* SpecApp: the application from a page load, with or without a session kept
\* from an earlier visit.
AppMounted ==
  /\ session \in {NoUser} \cup UserRole
  /\ currentUser = NoUser
  /\ checkInMode = "null"
  /\ emergencyMode = FALSE
  /\ returningVisitor = "null"
  /\ logoutPending = FALSE
  /\ \E path \in Paths :
       /\ pathname = Land(path, NoUser)
       /\ authInits = {InitializeAuth(path), InitializeAuth(Land(path, NoUser))}
       /\ visited = {}
       /\ nav = [requested |-> path, user |-> NoUser, landed |-> Land(path, NoUser)]

NextApp ==
  \/ LoadPage
  \/ HistoryGo
  \/ FollowLink
  \/ HandleLoginSuccess
  \/ HandleLogout
  \/ HandleLogoutSettled
  \/ InitializeAuthFetched
  \/ InitializeAuthApply
  \/ HandleEmergencyToggle

InitApp ==
  /\ visitors = <<>>
  /\ audit = <<>>
  /\ now = 0
  /\ last = NoCall
  /\ DashUnmounted
  /\ AppMounted
  /\ DriveUnused

SpecApp == InitApp /\ [][NextApp]_vars

\* SpecBackup: the admin page with BackupSettings mounted, over a browser that
\* holds nothing of Google Drive or a token received within the last hour, and
\* the dashboard's backup button; the clock runs.
InitBackup ==
  /\ visitors = <<>>
  /\ audit = <<>>
  /\ now = 0
  /\ last = NoCall
  /\ DashUnmounted
  /\ AppUnmounted
  /\ storedToken \in {0, 1}
  /\ storedExpiry \in IF storedToken = 0 THEN {0} ELSE 0..(HourLen - ExpiryBuffer)
  /\ storedClientId \in BOOLEAN
  /\ accessToken = storedToken
  /\ tokenExpiration = storedExpiry
  /\ isAuthorized = (storedToken # 0)
  /\ isBackingUp = FALSE
  /\ lastBackup = NoTime
  /\ backupError = "null"
  /\ lastStart = NoTime
  /\ connectedSince = IF storedToken # 0 THEN 0 ELSE NoTime
  /\ scriptLoaded \in BOOLEAN
  /\ signInCall = NoSignIn
  /\ dashBackup = "none"
  /\ upload = NoUpload

NextBackup ==
  \/ Tick
  \/ ScriptLoads
  \/ HandleAuthorize
  \/ InitAndSignInPoll
  \/ TokenCallback
  \/ HandleDisconnect
  \/ HandleBackup
  \/ HandleBackupSettled
  \/ DashboardBackup
  \/ SignInWithFirebaseSettled
  \/ DashboardBackupSettled

SpecBackup == InitBackup /\ [][NextBackup]_vars

\* SpecSignInLive: connecting and disconnecting Google Drive in BackupSettings.
\* The interval of initAndSignIn keeps firing while it is set; whether the
\* script ever loads and whether Google ever calls the token callback is up to
\* the network and to the person at the consent window.
NextSignIn ==
  \/ ScriptLoads
  \/ HandleAuthorize
  \/ InitAndSignInPoll
  \/ TokenCallback
  \/ HandleDisconnect

SpecSignInLive ==
  InitBackup /\ [][NextSignIn]_vars /\ WF_vars(InitAndSignInPoll)

\* SpecAppLive: the application over a collection with visitors on site, used
\* by someone who keeps trying every control that is offered.
InitAppLive ==
  /\ visitors = [id \in Ids |-> [visitorIdNumber |-> 1, checkInTime |-> 0,
                                 checkOutTime |-> NoTime, status |-> "checked-in"]]
  /\ audit = <<>>
  /\ now = 0
  /\ last = NoCall
  /\ DashUnmounted
  /\ AppMounted
  /\ DriveUnused

SpecAppLive ==
  /\ InitAppLive
  /\ [][NextApp]_vars
  /\ WF_vars(NextApp)
  /\ SF_vars(LoadPage)
  /\ SF_vars(HistoryGo)
  /\ SF_vars(FollowLink)
  /\ SF_vars(HandleLoginSuccess)
  /\ SF_vars(HandleLogout)
  /\ SF_vars(HandleLogoutSettled)
  /\ SF_vars(InitializeAuthFetched)
  /\ SF_vars(InitializeAuthApply)
  /\ SF_vars(HandleEmergencyToggle)

\* ------------------------------------------------------------------ claims
SeqIds(s) == {s[i].id : i \in 1..Len(s)}

\* The last query a call issued was answered without error.
Answered(r) == r.queries # <<>> /\ r.queries[Len(r.queries)].r = "ok"

ActiveReads == {"getActiveVisitors", "subscribeToActiveVisitors"}

\* C1: a resolved checkInVisitor leaves its new record 'checked-in', and every
\* getActiveVisitors result and every list delivered by subscribeToActiveVisitors
\* whose query the backend answered contains each record that is still
\* 'checked-in' (no check-out or evacuation write has been applied to it).
C1_CheckedInIsListed ==
  /\ (last.op = "checkInVisitor" /\ last.outcome = "resolved") =>
       /\ last.written # {}
       /\ \A id \in last.written :
            id \in DOMAIN visitors /\ visitors[id].status = "checked-in"
  /\ (last.op \in ActiveReads /\ Answered(last)) =>
       /\ last.outcome \in {"resolved", "delivered"}
       /\ ActiveIds \subseteq SeqIds(last.value)

C1_Witness ==
  /\ last.op = "getActiveVisitors"
  /\ last.queries = <<Query("active-ordered", "ok")>>
  /\ Cardinality(SeqIds(last.value)) >= 2
  /\ DOMAIN visitors = ActiveIds

\* C2: a resolved checkOutVisitor(id) leaves record id 'checked-out' with a
\* checkOutTime; a record that is not 'checked-in' never becomes 'checked-in'
\* again, whatever operation follows; and the active reads return 'checked-in'
\* records only.  So a checked-out record is absent from every later result.
C2_CheckedOutStaysOut ==
  /\ [](last.op = "checkOutVisitor" /\ last.outcome = "resolved" =>
          \A id \in last.args.ids :
            /\ id \in DOMAIN visitors
            /\ visitors[id].status = "checked-out"
            /\ visitors[id].checkOutTime = now)
  /\ [][\A id \in DOMAIN visitors :
          visitors[id].status # "checked-in" =>
            id \in DOMAIN visitors' /\ visitors'[id].status # "checked-in"]_vars
  /\ [](last.op \in ActiveReads => SeqIds(last.value) \subseteq ActiveIds)

C2_Witness ==
  /\ last.op = "getActiveVisitors"
  /\ last.value # <<>>
  /\ \E id \in DOMAIN visitors : visitors[id].status = "checked-out"

\* C6: emergencyEvacuation rejects exactly when one of its writes fails, and
\* then every record whose write the backend accepted is 'emergency-evacuated'
\* with its checkOutTime all the same; the call reports one outcome and no
\* value.
C6_EvacuationNotAtomic ==
  last.op = "emergencyEvacuation" =>
    /\ last.outcome = (IF last.written = last.args.ids THEN "resolved" ELSE "rejected")
    /\ last.value = <<>>
    /\ \A id \in last.written :
         /\ visitors[id].status = "emergency-evacuated"
         /\ visitors[id].checkOutTime = now

C6_Witness ==
  /\ last.op = "emergencyEvacuation"
  /\ last.outcome = "rejected"
  /\ last.written # {}
  /\ \E id \in last.args.ids \cap DOMAIN visitors :
       id \notin last.written /\ visitors[id].status = "checked-in"

\* C7: no status transition is guarded.  In every state and for every stored
\* record, whatever its status, checkOutVisitor can make it 'checked-out' and
\* emergencyEvacuation can make it 'emergency-evacuated', and each write that
\* is applied replaces status and checkOutTime and nothing else.
C7_NoTransitionGuard ==
  /\ Idle =>
       \A id \in DOMAIN visitors :
         /\ ENABLED (/\ CheckOutVisitor({"unavailable"})
                     /\ visitors'[id].status = "checked-out"
                     /\ visitors'[id].checkOutTime = now)
         /\ ENABLED (/\ EmergencyEvacuation
                     /\ visitors'[id].status = "emergency-evacuated"
                     /\ visitors'[id].checkOutTime = now)
  /\ last.op \in {"checkOutVisitor", "emergencyEvacuation"} =>
       \A id \in last.written :
         visitors[id] =
           [last.before[id] EXCEPT
              !.status = IF last.op = "checkOutVisitor"
                           THEN "checked-out" ELSE "emergency-evacuated",
              !.checkOutTime = now]

\* An evacuation has overwritten a 'checked-out' record and its earlier
\* checkOutTime, and a check-out an 'emergency-evacuated' one before that.
C7_Witness ==
  /\ last.op = "emergencyEvacuation"
  /\ \E id \in last.written :
       /\ last.before[id].status = "checked-out"
       /\ last.before[id].checkOutTime < visitors[id].checkOutTime

\* The calendar day a tick falls on.
DayOf(t) == t \div DayLen

IsNewestFirst(s) ==
  \A i, j \in 1..Len(s) : i < j => s[i].checkInTime >= s[j].checkInTime

\* s lists exactly the stored records with ids S, each once, newest first.
ListsExactly(s, S) ==
  /\ SeqIds(s) = S
  /\ Len(s) = Cardinality(S)
  /\ \A i \in 1..Len(s) : s[i] = mapDocToVisitor(s[i].id)
  /\ IsNewestFirst(s)

\* C3: whenever getVisitorsByDateRange(start, end) resolves, on the primary
\* path and on the fallback path alike, it returns exactly the stored visitors
\* checked in from the first tick of start's day to the last tick of end's day,
\* newest first.
C3_DateRangeExact ==
  (last.op = "getVisitorsByDateRange" /\ last.outcome = "resolved") =>
    ListsExactly(last.value,
                 {id \in DOMAIN visitors :
                    /\ DayOf(last.args.from) <= DayOf(visitors[id].checkInTime)
                    /\ DayOf(visitors[id].checkInTime) <= DayOf(last.args.to)})

\* The fallback path, an end date that is not the last tick of its day, a
\* record on that last tick returned and another record left out.
C3_Witness ==
  /\ last.op = "getVisitorsByDateRange"
  /\ last.outcome = "resolved"
  /\ Len(last.queries) = 2
  /\ \E i \in 1..Len(last.value) : last.value[i].checkInTime > last.args.to
  /\ SeqIds(last.value) # DOMAIN visitors

\* C4: whenever getTodayVisitors is answered, on the primary path as on the
\* fallback path, it returns exactly the visitors checked in at or after local
\* midnight of the current day, newest first.
C4_TodayOnly ==
  (last.op = "getTodayVisitors" /\ Answered(last)) =>
    ListsExactly(last.value,
                 {id \in DOMAIN visitors : DayOf(visitors[id].checkInTime) = DayOf(now)})

Reads ==
  {"getActiveVisitors", "getTodayVisitors", "getVisitorsByDateRange", "getAllVisitors",
   "getAllAuditLogs", "findVisitorByIdNumber", "findVisitorByQRCode"}

\* C8: every read resolves whatever the backend answers, with an empty value
\* when the backend failed, and a subscription error delivers an empty list.
C8_ReadsNeverReject ==
  /\ last.op \in Reads =>
       /\ last.outcome = "resolved"
       /\ (\E i \in 1..Len(last.queries) : last.queries[i].r \notin {"ok", "failed-precondition"})
            => last.value = <<>>
  /\ (last.op = "subscribeToActiveVisitors" /\ ~Answered(last)) => last.value = <<>>

\* C9: a read issues a second (fallback) query exactly when its primary query
\* failed with 'failed-precondition'; after any other failure it issues nothing
\* more and returns the empty result; and no call issues the same query twice.
C9_FallbackOnlyOnIndexMissing ==
  last.op \in Reads =>
    /\ Len(last.queries) <= 2
    /\ Len(last.queries) = 2 <=> (last.queries # <<>> /\ last.queries[1].r = "failed-precondition")
    /\ (last.queries # <<>> /\ last.queries[1].r \notin {"ok", "failed-precondition"})
         => (last.outcome = "resolved" /\ last.value = <<>>)
    /\ \A i, j \in 1..Len(last.queries) : i # j => last.queries[i].q # last.queries[j].q

\* The dashboard has nothing left to receive: the load has succeeded and the
\* live listener has delivered the current result of its query.
DashSettled ==
  /\ dashLoad = "done"
  /\ ~loading
  /\ listening
  /\ activeVisitors = subscribeToActiveVisitors("ok").value

\* C5: once the dashboard has received everything the backend sends it, no
\* visitor who has been checked out is among checkInVisitorsInView any more.
C5_CheckedOutLeavesView ==
  DashSettled =>
    \A id \in DOMAIN visitors :
      visitors[id].status = "checked-out" => id \notin ViewIds

\* The role each protected path asks for.
RoleOf(path) ==
  CASE path = "/admin" -> "admin"
    [] path = "/front-desk" -> "front-desk"
    [] path = "/hierarchy" -> "hierarchy-person"

Admitted(path, user) == user # NoUser /\ (user = RoleOf(path) \/ user = "super-admin")

\* C10: a protected path is the rendered location only while a user is logged
\* in whose role is the path's role or 'super-admin'; a navigation to a
\* protected path lands on /login when nobody is logged in and on '/' when the
\* user has another role.
C10_ProtectedRouteGuards ==
  /\ pathname \in ProtectedPaths => Admitted(pathname, currentUser)
  /\ nav.requested \in ProtectedPaths =>
       nav.landed = IF nav.user = NoUser THEN "/login"
                    ELSE IF Admitted(nav.requested, nav.user) THEN nav.requested
                    ELSE "/"

\* After a log-out (a protected page has been shown and the session is gone), a
\* protected path taken from the history lands on /login.
C10_Witness ==
  /\ session = NoUser
  /\ currentUser = NoUser
  /\ visited \cap ProtectedPaths # {}
  /\ nav.requested \in ProtectedPaths
  /\ pathname = "/login"

SharesIdNumber(i, j) ==
  /\ i # j
  /\ visitors[i].visitorIdNumber = visitors[j].visitorIdNumber

C12_EvacuationCanBeTriggered ==
  <>(\/ ENABLED HandleEmergencyEvacuation
     \/ last.op = "emergencyEvacuation"
     \/ \E id \in DOMAIN visitors : visitors[id].status = "emergency-evacuated")

\* No page hands handleEmergencyEvacuation to a control, in emergency mode or
\* out of it.
EvacuationNeverOffered == ~ENABLED HandleEmergencyEvacuation

\* C13: whoever uses the application long enough gets to start a check-in and
\* a check-out: at some point checkInMode is 'check-in' or a control that calls
\* handleCheckIn is on the page, and likewise for 'check-out'.
C13_CheckInCanBeStarted ==
  /\ <>(checkInMode = "check-in" \/ ENABLED HandleCheckIn)
  /\ <>(checkInMode = "check-out" \/ ENABLED HandleCheckOut)

\* checkInMode never leaves null, and no page offers handleCheckIn or
\* handleCheckOut.
CheckInModeStaysNull ==
  /\ checkInMode = "null"
  /\ ~ENABLED HandleCheckIn
  /\ ~ENABLED HandleCheckOut

\* C14: while Google Drive is connected a backup starts by itself at the
\* beginning of every hour: whenever 'Google Drive Connected' has been shown
\* for a whole hour, createBackup has been called within that hour.
C14_HourlyBackup ==
  (isAuthorized /\ connectedSince # NoTime /\ now - connectedSince >= HourLen)
    => (lastStart # NoTime /\ lastStart >= now - HourLen)

\* createBackup is called by the two buttons only: no step that is not a press
\* of 'Backup Now' or of the dashboard's 'Backup', or the sign-in that this
\* press waits for, starts one.
BackupOnlyOnPress ==
  [][lastStart' # lastStart =>
       (HandleBackup \/ DashboardBackup \/ dashBackup \in {"authorizing", "firebase"})]_vars

CheckedOutNow(r) == [r EXCEPT !.status = "checked-out", !.checkOutTime = now]

\* C15: handleBulkCheckOut checks out each selected visitor on its own.  Each
\* selected record is either checked out or left as it was and no other record
\* changes; the selection is cleared, with the success alert, only when every
\* selected record has been checked out, and is otherwise kept as it was with
\* the one generic alert; and with one record of the selection failing,
\* every other may still be checked out and stay so.
C15_BulkCheckOutIndependent ==
  /\ [][HandleBulkCheckOut({"unavailable"}) =>
          /\ DOMAIN visitors' = DOMAIN visitors
          /\ \A id \in DOMAIN visitors :
               IF id \in selectedIds
                 THEN visitors'[id] \in {visitors[id], CheckedOutNow(visitors[id])}
                 ELSE visitors'[id] = visitors[id]
          /\ selectedIds' \in {{}, selectedIds}
          /\ selectedIds' = {} =>
               /\ alertMsg' = "visitors checked out successfully!"
               /\ \A id \in selectedIds :
                    id \in DOMAIN visitors /\ visitors'[id] = CheckedOutNow(visitors[id])
          /\ selectedIds' # {} => alertMsg' = "Some checkouts failed. Please try again."
      ]_vars
  /\ [](\A bad \in selectedIds :
          (~loading /\ selectedIds \ {bad} # {}) =>
            ENABLED (/\ HandleBulkCheckOut({"unavailable"})
                     /\ visitors'[bad] = visitors[bad]
                     /\ \A id \in selectedIds \ {bad} :
                          visitors'[id] = CheckedOutNow(visitors[id])
                     /\ selectedIds' = selectedIds
                     /\ alertMsg' = "Some checkouts failed. Please try again."))

\* A bulk check-out has failed for one selected visitor, who is still checked
\* in, and has checked out another, who stays selected.
C15_Witness ==
  /\ alertMsg = "Some checkouts failed. Please try again."
  /\ \E i, j \in selectedIds :
       /\ visitors[i].status = "checked-in"
       /\ visitors[j].status = "checked-out"
       /\ visitors[j].checkOutTime = now

VisitorWrites == {"checkInVisitor", "checkOutVisitor"}

\* The audit write of the last call was refused.
AuditRefused(r) == r.queries # <<>> /\ r.queries[1].q = "audit-write" /\ r.queries[1].r # "ok"

\* C16: a refused audit write does not fail the visitor operation.  A
\* checkInVisitor or checkOutVisitor whose visitor write was applied resolves
\* whatever became of its audit write, and the record it wrote is in the
\* collection: the new 'checked-in' record, or the record made 'checked-out'
\* with checkOutTime now.
C16_AuditFailureSwallowed ==
  (last.op \in VisitorWrites /\ last.written # {}) =>
    /\ last.outcome = "resolved"
    /\ \A id \in last.written :
         /\ id \in DOMAIN visitors
         /\ IF last.op = "checkInVisitor"
              THEN /\ id \notin DOMAIN last.before
                   /\ visitors[id] = [visitorIdNumber |-> last.args.key, checkInTime |-> now,
                                      checkOutTime |-> NoTime, status |-> "checked-in"]
              ELSE visitors[id] = CheckedOutNow(last.before[id])

\* A check-out and a check-in have resolved although the audit collection
\* refused their records: the visitor write is there, the audit record is not.
C16_Witness ==
  /\ last.op = "checkOutVisitor"
  /\ last.outcome = "resolved"
  /\ AuditRefused(last)
  /\ \A id \in last.written : visitors[id].status = "checked-out"
  /\ audit = <<>>
SingleCheckOutFailed == "Checkout failed. Please try again."

\* C17: a failed visitor write fails the operation and changes nothing.  In
\* every state, a checkOutVisitor rejects exactly when its update is not
\* applied and a checkInVisitor exactly when its add is refused, in both cases
\* with the error of that write, with no audit write attempted and with both
\* collections as they were; a check-in that has rejected has left them so;
\* and a step of handleSingleCheckOut either checks the visitor out and takes
\* it out of the selection or, the check-out rejected, raises the one alert and
\* leaves the selection and both collections as they were.
C17_WriteFailureRejects ==
  /\ [](\A id \in Ids, w \in Outcomes, a \in {"ok", "unavailable"} :
          LET e == checkOutVisitor(id, w, a)
          IN /\ (e.result.outcome = "rejected") = ~(w = "ok" /\ id \in DOMAIN visitors)
             /\ e.result.outcome = "rejected" =>
                  /\ e.visitors = visitors
                  /\ e.audit = audit
                  /\ e.result.value = <<[code |-> IF w = "ok" THEN "not-found" ELSE w]>>
                  /\ \A i \in 1..Len(e.result.queries) :
                       e.result.queries[i].q # "audit-write")
  /\ [](\A id \in Ids \ DOMAIN visitors, w \in Outcomes, a \in {"ok", "unavailable"} :
          LET e == checkInVisitor(id, 1, w, a)
          IN /\ (e.result.outcome = "rejected") = (w # "ok")
             /\ e.result.outcome = "rejected" =>
                  /\ e.visitors = visitors
                  /\ e.audit = audit
                  /\ e.result.value = <<[code |-> w]>>
                  /\ \A i \in 1..Len(e.result.queries) :
                       e.result.queries[i].q # "audit-write")
  /\ []((last.op \in VisitorWrites /\ last.outcome = "rejected") =>
          /\ last.written = {}
          /\ last.queries[1].q = "visitor-write"
          /\ last.value = <<[code |-> last.queries[1].r]>>)
  /\ [][(Idle /\ last'.op \in VisitorWrites /\ last'.outcome = "rejected") =>
          (visitors' = visitors /\ audit' = audit)]_vars
  /\ [][HandleSingleCheckOut({"ok"}) =>
          \/ /\ alertMsg' = SingleCheckOutFailed
             /\ UNCHANGED <<visitors, audit, selectedIds>>
          \/ /\ alertMsg' = alertMsg
             /\ \E id \in ViewIds :
                  /\ visitors' = [visitors EXCEPT ![id] = CheckedOutNow(visitors[id])]
                  /\ selectedIds' = selectedIds \ {id}]_vars

\* A single check-out of a selected, checked-in visitor has failed: the alert
\* is up, the visitor is still selected and still checked in, no check-out is
\* in the audit log; and a check-in has just been rejected.
C17_Witness ==
  /\ alertMsg = SingleCheckOutFailed
  /\ selectedIds # {}
  /\ \A id \in selectedIds : visitors[id].status = "checked-in"
  /\ \A i \in 1..Len(audit) : audit[i].action # "visitor_check_out"
  /\ last.op = "checkInVisitor"
  /\ last.outcome = "rejected"

\* The dashboard of each role.
DashboardOf(role) ==
  CASE role = "front-desk" -> "/front-desk"
    [] role = "hierarchy-person" -> "/hierarchy"
    [] role \in {"admin", "super-admin"} -> "/admin"

\* The user is on the dashboard of their role, having asked for it and not
\* been sent elsewhere.
OnOwnDashboard ==
  /\ currentUser' \in UserRole
  /\ pathname' = DashboardOf(currentUser')
  /\ nav' = [requested |-> DashboardOf(currentUser'), user |-> currentUser',
             landed |-> DashboardOf(currentUser')]

\* C18: every role lands on its own dashboard.  A step of handleLoginSuccess,
\* and a step in which an initializeAuth started on '/', '/login' or '/signup'
\* applies the user it found, leaves that user as the current user on the
\* dashboard of their role; and the guard of that dashboard's route admits
\* every role whose dashboard it is.
C18_DefaultDashboardAdmits ==
  /\ [][HandleLoginSuccess => OnOwnDashboard]_vars
  /\ [][InitializeAuthApply =>
          \A i \in authInits \ authInits' :
            i.public => (currentUser' = i.user /\ OnOwnDashboard)]_vars
  /\ [](\A role \in UserRole : RouteElement(DashboardOf(role), role) = "children")

\* A super-admin is the current user on /admin, having asked for it, in a tab
\* in which a front-desk user had been on /front-desk before.
C18_Witness ==
  /\ currentUser = "super-admin"
  /\ session = "super-admin"
  /\ pathname = "/admin"
  /\ nav = [requested |-> "/admin", user |-> "super-admin", landed |-> "/admin"]
  /\ visited = {"/admin", "/front-desk"}
\* C19: currentUser needs no synchronisation.  While nobody is logged in and
\* currentUser is null, as after a handleLogout that completed, only
\* handleLoginSuccess makes currentUser a user again; and a handleLogout that
\* has settled either has cleared currentUser or has left currentUser,
\* checkInMode and returningVisitor as they were.
C19_LogoutIsFinal ==
  /\ [][(session = NoUser /\ currentUser = NoUser /\ currentUser' # NoUser) =>
          HandleLoginSuccess]_vars
  /\ [][HandleLogoutSettled =>
          \/ currentUser' = NoUser /\ session' = NoUser
          \/ UNCHANGED <<currentUser, checkInMode, returningVisitor>>]_vars

\* A failed logout changes nothing of the three.
FailedLogoutKeepsState ==
  [][(HandleLogoutSettled /\ session' # NoUser) =>
       UNCHANGED <<currentUser, checkInMode, returningVisitor>>]_vars

\* A user is current although the session is gone.
LoggedOutButCurrent == session = NoUser /\ currentUser # NoUser
\* C20: selection and check-out apply only to the visitors displayed as
\* checked in.  In every state selectedIds is a subset of the ids of
\* checkInVisitorsInView, and a step of handleBulkCheckOut changes the record
\* of no visitor outside that view.
C20_SelectionWithinView ==
  /\ [](selectedIds \subseteq ViewIds)
  /\ [][HandleBulkCheckOut({"unavailable"}) =>
          \A id \in DOMAIN visitors : visitors'[id] # visitors[id] => id \in ViewIds]_vars

\* A visitor whom the date range or the search term keeps out of the view is
\* selected and still checked in.
SelectedOutOfView ==
  \E id \in selectedIds \ ViewIds : visitors[id].status = "checked-in"

\* handleBulkCheckOut checks out a visitor who is not in the view.
BulkCheckOutOutsideView ==
  \E id \in DOMAIN visitors \ ViewIds :
    /\ visitors[id].status = "checked-out"
    /\ visitors[id].checkOutTime = now
    /\ alertMsg = "visitors checked out successfully!"
\* A step in which an uploadData call settles.
UploadSettles == HandleBackupSettled \/ DashboardBackupSettled

\* C21: uploadData needs a valid token.  An uploadData call made while no
\* token is held or the clock is at or past the expiry sends no request and
\* rejects with the 'No valid access token' error, and otherwise sends exactly
\* one request; a token callback sets the expiry, in memory and in local
\* storage, to the time of the response plus its expires_in less the buffer,
\* signInWithFirebase to that time plus an hour less the buffer, and nothing
\* else changes the expiry.
C21_UploadNeedsValidToken ==
  /\ [][UploadSettles =>
          IF accessToken = 0 \/ now >= tokenExpiration
            THEN upload' = [outcome |-> "rejected", requests |-> 0, error |-> NoValidToken]
            ELSE upload'.requests = 1 /\ upload'.error # NoValidToken]_vars
  /\ [][(TokenCallback /\ signInCall'.outcome = "resolved") =>
          /\ signInCall'.expires_in \in ExpiresIn
          /\ tokenExpiration' = now + signInCall'.expires_in - ExpiryBuffer
          /\ storedExpiry' = tokenExpiration']_vars
  /\ [][(SignInWithFirebaseSettled /\ dashBackup' = "reading") =>
          /\ tokenExpiration' = now + HourLen - ExpiryBuffer
          /\ storedExpiry' = tokenExpiration']_vars
  /\ [][tokenExpiration' # tokenExpiration =>
          \/ TokenCallback /\ signInCall'.outcome = "resolved"
          \/ SignInWithFirebaseSettled /\ dashBackup' = "reading"]_vars

\* An upload was refused, without a request, at the very tick at which the
\* token that is held expired.
C21_Witness ==
  /\ upload = [outcome |-> "rejected", requests |-> 0, error |-> NoValidToken]
  /\ accessToken # 0
  /\ now = tokenExpiration
  /\ dashBackup = "none"
  /\ ~isBackingUp

\* An upload has gone out with a valid token.
UploadSent == upload.requests = 1 /\ isTokenValid
\* ensureAuthorized signs in only without a valid token, by the client-id flow
\* if a client id is stored and by the Firebase login otherwise, and the token
\* is valid at the moment it resolves.
EnsureAuthorizedResolvesValid ==
  /\ [][DashboardBackup =>
          /\ (dashBackup' \in {"authorizing", "firebase"}) = ~isTokenValid
          /\ dashBackup' = "authorizing" => (storedClientId /\ signInCall'.caller = "dashboard")
          /\ dashBackup' = "firebase" => ~storedClientId]_vars
  /\ [][(dashBackup # "reading" /\ dashBackup' = "reading") =>
          (accessToken' # 0 /\ now < tokenExpiration')]_vars

\* C22: ensureAuthorized makes the backup that follows it safe from the token
\* check.  It signs in only without a valid token, by the client-id flow if a
\* client id is stored and by the Firebase login otherwise; the token is valid
\* when it resolves; and the createBackup of the dashboard's handler, which
\* runs after ensureAuthorized has resolved, is never rejected with the 'No
\* valid access token' error.
C22_EnsureAuthorizedSuffices ==
  /\ EnsureAuthorizedResolvesValid
  /\ [][DashboardBackupSettled => upload'.error # NoValidToken]_vars

\* The dashboard's backup was refused for lack of a valid token.
DashboardBackupRefused ==
  /\ alertMsg = "Backup failed: " \o NoValidToken
  /\ upload.requests = 0
\* While initAndSignIn waits for the script its interval is set and has run
\* fewer than maxAttempts times; the interval is cleared from then on,
\* whichever way the wait ended.
PollingIsBounded ==
  /\ signInCall.phase = "polling" =>
       (signInCall.timer /\ signInCall.attempts < maxAttempts)
  /\ signInCall.phase # "polling" => (~signInCall.timer /\ signInCall.attempts = 0)

\* C23: every call of initAndSignIn eventually settles.  The wait for the
\* script ends after at most maxAttempts polls, with the interval cleared, and
\* a call in flight, waiting for the script or for the token, leads to the
\* call having resolved or rejected.
C23_SignInSettles ==
  /\ []PollingIsBounded
  /\ (SignInInFlight ~> signInCall.phase = "settled")

\* The wait for the script leads to the token request or to a rejection.
PollingEnds == (signInCall.phase = "polling") ~> (signInCall.phase # "polling")
\* While the connect form is shown 'Backup Now' is not there to be pressed.
NoBackupFromConnectForm == ~isAuthorized => ~ENABLED HandleBackup

\* C24: 'Google Drive Connected' means a valid token.  Whenever isAuthorized is
\* true the service holds a valid token, and the createBackup of 'Backup Now'
\* is never rejected with the 'No valid access token' error; whenever
\* isAuthorized is false no backup can be started from BackupSettings.
C24_ConnectedMeansValidToken ==
  /\ [](isAuthorized => isTokenValid)
  /\ [][HandleBackupSettled => upload'.error # NoValidToken]_vars
  /\ []NoBackupFromConnectForm

\* 'Backup Now' was pressed under 'Google Drive Connected' and the backup was
\* refused for lack of a valid token.
BackupNowRefused ==
  /\ isAuthorized
  /\ ~isBackingUp
  /\ backupError = "Backup failed: " \o NoValidToken
  /\ upload.requests = 0
\* C26: the token in memory is the token in local storage.  In every state
\* the access token held by the service equals the value stored under
\* 'gdrive_access_token', none being held when none is stored.
C26_MemoryEqualsStorage == accessToken = storedToken

\* The token callbacks and signInWithFirebase write the token to both places.
SignInWritesBoth ==
  [][(accessToken' # accessToken \/ storedToken' # storedToken) =>
       (accessToken' = storedToken' \/ HandleDisconnect)]_vars

\* Disconnected in BackupSettings, the service still holds a valid token.
DisconnectedWithToken ==
  /\ ~isAuthorized
  /\ storedToken = 0
  /\ isTokenValid
\* The list the primary, indexed query of getActiveVisitors returns.
PrimaryActiveList == getActiveVisitors("ok", "ok").value

\* C25: the fallback of getActiveVisitors is equivalent to its primary query.
\* Whatever the collection holds, a getActiveVisitors answered on either path
\* and a snapshot delivered by subscribeToActiveVisitors give the list the
\* primary query gives: the records with status 'checked-in', newest first, in
\* one and the same order.
C25_FallbackEquivalent ==
  (last.op \in ActiveReads /\ Answered(last)) =>
    /\ ListsExactly(last.value, ActiveIds)
    /\ last.value = PrimaryActiveList

\* Both paths and the subscription give the same records, each newest first.
FallbackSameRecords ==
  (last.op \in ActiveReads /\ Answered(last)) =>
    /\ ListsExactly(last.value, ActiveIds)
    /\ ListsExactly(PrimaryActiveList, ActiveIds)

\* Where the lists differ, they differ among records checked in at the same
\* time only.
FallbackDiffersOnTiesOnly ==
  (last.op \in ActiveReads /\ Answered(last)) =>
    \A i \in 1..Len(last.value) :
      last.value[i].checkInTime = PrimaryActiveList[i].checkInTime
\* Record id has an audit document of the given action.
Audited(id, action) ==
  \E i \in 1..Len(audit) : audit[i].visitorId = id /\ audit[i].action = action

\* C27: with audit writes that do not fail the audit log is a complete record
\* of status changes.  Every record has an audit document of its check-in, and
\* every record whose status is not 'checked-in' has an audit document, other
\* than that of its check-in, carrying its id.
C27_AuditComplete ==
  \A id \in DOMAIN visitors :
    /\ Audited(id, "visitor_check_in")
    /\ visitors[id].status # "checked-in" =>
         \E i \in 1..Len(audit) :
           audit[i].visitorId = id /\ audit[i].action # "visitor_check_in"

\* Check-in and check-out are audited.
CheckInAndCheckOutAudited ==
  \A id \in DOMAIN visitors :
    /\ Audited(id, "visitor_check_in")
    /\ visitors[id].status = "checked-out" => Audited(id, "visitor_check_out")

\* emergencyEvacuation writes nothing to the audit log.
EvacuationNotAudited ==
  [][EmergencyEvacuation => audit' = audit]_vars
====
